---- MODULE Spec2Model ----
(***************************************************************************)
(* One time step of the reacting-flow integrator SpEnergy.step of          *)
(* nonUniform-Bunsen100/solver_class_flame.py, as a state machine whose    *)
(* program counter walks through the sub-steps of the method.              *)
(*                                                                         *)
(* Field values are Python/NumPy floating point numbers.  They are         *)
(* modelled as decimal floating point numbers <<kind, mantissa, exponent>> *)
(* of Digits significant digits together with the three IEEE specials      *)
(* NaN, +Inf and -Inf, because the boundary updates of step are written    *)
(* as  data * mask + bc  and x * 0 is 0 only for a finite x.               *)
(***************************************************************************)
EXTENDS Integers, Sequences, FiniteSets, TLC

(***************************************************************************)
(* Bounds of the model.                                                    *)
(***************************************************************************)
\* grid resolution (the argument res of step and the resolution of the domain)
Res == 3
\* number of significant decimal digits kept by the arithmetic
Digits == 4
\* longest chain of step calls, each applied to the state the previous returned
MaxSteps == 2

(***************************************************************************)
(* Floating point arithmetic.                                              *)
(***************************************************************************)
RECURSIVE Pow10(_)
Pow10(n) == IF n <= 0 THEN 1 ELSE 10 * Pow10(n - 1)

AbsInt(a) == IF a < 0 THEN -a ELSE a

MinInt(a, b) == IF a <= b THEN a ELSE b

\* integer division truncating towards zero (b > 0)
TDiv(a, b) == IF a >= 0 THEN a \div b ELSE -((-a) \div b)

NaN == <<"nan", 0, 0>>
PInf == <<"pinf", 0, 0>>
NInf == <<"ninf", 0, 0>>

RECURSIVE NormPos(_, _)
NormPos(m, e) ==
    IF m = 0 THEN <<0, 0>>
    ELSE IF m >= Pow10(Digits) \/ m % 10 = 0 THEN NormPos(m \div 10, e + 1)
    ELSE <<m, e>>

\* the finite number m * 10^e, rounded to Digits digits, in canonical form
F(m, e) ==
    LET n == NormPos(AbsInt(m), e)
    IN  <<"fin", IF m < 0 THEN -n[1] ELSE n[1], n[2]>>

Zero == F(0, 0)
One == F(1, 0)

IsFin(a) == a[1] = "fin"
IsNaN(a) == a[1] = "nan"
IsInf(a) == a[1] \in {"pinf", "ninf"}
IsZero(a) == IsFin(a) /\ a[2] = 0

\* -1, 0 or 1; only used for values that are not NaN
Sign(a) ==
    IF a[1] = "pinf" THEN 1
    ELSE IF a[1] = "ninf" THEN -1
    ELSE IF a[2] > 0 THEN 1 ELSE IF a[2] < 0 THEN -1 ELSE 0

InfOf(s) == IF s > 0 THEN PInf ELSE NInf

Neg(a) ==
    IF IsNaN(a) THEN NaN
    ELSE IF a[1] = "pinf" THEN NInf
    ELSE IF a[1] = "ninf" THEN PInf
    ELSE <<"fin", -a[2], a[3]>>

Absolute(a) == IF IsNaN(a) THEN NaN ELSE IF Sign(a) < 0 THEN Neg(a) ELSE a

\* the mantissa m of m * 10^e cut to fewer than `limit`
RECURSIVE CutTo(_, _, _)
CutTo(m, e, limit) == IF m >= limit THEN CutTo(m \div 10, e + 1, limit) ELSE <<m, e>>

\* product of two finite numbers; the second mantissa is cut so that the
\* intermediate product stays below 10^9
MulFin(a, b) ==
    LET c == CutTo(AbsInt(b[2]), b[3], Pow10(9 - Digits))
    IN  F(a[2] * (IF b[2] < 0 THEN -c[1] ELSE c[1]), a[3] + c[2])

Mul(a, b) ==
    IF IsNaN(a) \/ IsNaN(b) THEN NaN
    ELSE IF IsInf(a) \/ IsInf(b)
         THEN IF Sign(a) * Sign(b) = 0 THEN NaN ELSE InfOf(Sign(a) * Sign(b))
    ELSE MulFin(a, b)

\* sum of two finite numbers, the first with the larger exponent
AddOrd(a, b) ==
    LET d  == a[3] - b[3]
        s  == MinInt(d, 8 - Digits)
        r  == d - s
        mb == IF r > 9 THEN 0 ELSE TDiv(b[2], Pow10(r))
    IN  F(a[2] * Pow10(s) + mb, a[3] - s)

AddFin(a, b) ==
    IF a[2] = 0 THEN b
    ELSE IF b[2] = 0 THEN a
    ELSE IF a[3] >= b[3] THEN AddOrd(a, b) ELSE AddOrd(b, a)

Add(a, b) ==
    IF IsNaN(a) \/ IsNaN(b) THEN NaN
    ELSE IF IsInf(a) /\ IsInf(b) THEN (IF a = b THEN a ELSE NaN)
    ELSE IF IsInf(a) THEN a
    ELSE IF IsInf(b) THEN b
    ELSE AddFin(a, b)

Sub(a, b) == Add(a, Neg(b))

RECURSIVE ScaleUp(_, _)
ScaleUp(m, e) == IF m < 100000000 THEN ScaleUp(m * 10, e - 1) ELSE <<m, e>>

\* quotient of two finite numbers, b # 0
DivFin(a, b) ==
    LET n == ScaleUp(AbsInt(a[2]), a[3])
        q == n[1] \div AbsInt(b[2])
    IN  IF a[2] = 0 THEN Zero
        ELSE F(Sign(a) * Sign(b) * q, n[2] - b[3])

\* NumPy true division: x / 0 is +-Inf, 0 / 0 is NaN, no exception
Div(a, b) ==
    IF IsNaN(a) \/ IsNaN(b) THEN NaN
    ELSE IF IsInf(a) THEN (IF IsInf(b) THEN NaN
                           ELSE IF Sign(b) < 0 THEN Neg(a) ELSE a)
    ELSE IF IsInf(b) THEN Zero
    ELSE IF IsZero(b) THEN (IF IsZero(a) THEN NaN ELSE InfOf(Sign(a)))
    ELSE DivFin(a, b)

\* x ** (-1)
PowNeg1(a) == Div(One, a)

\* a < b for numbers that are not NaN
Less(a, b) == Sign(Sub(a, b)) < 0 /\ ~IsNaN(Sub(a, b))


(***************************************************************************)
(* Grids.  Axis 0 of a field is y (row 0 is the bottom row), axis 1 is x.  *)
(* A centered field has Res x Res cells; component 0 of the staggered      *)
(* velocity (cy) has Res+1 rows of y-faces, component 1 (cx) has Res+1     *)
(* columns of x-faces.                                                     *)
(***************************************************************************)
Shape(R, C) == (0 .. R - 1) \X (0 .. C - 1)

Cells == Shape(Res, Res)
YFaces == Shape(Res + 1, Res)
XFaces == Shape(Res, Res + 1)

Const(S, v) == [p \in S |-> v]

Clamp(i, n) == IF i < 0 THEN 0 ELSE IF i > n - 1 THEN n - 1 ELSE i

\* value of an R x C field at (i, j), the indices clamped to the grid
Sample(f, R, C, i, j) == f[<<Clamp(i, R), Clamp(j, C)>>]

Half == F(5, -1)

Avg(a, b) == Mul(Half, Add(a, b))

\* centered_field.at(velocity): a centered field at the y-faces and the x-faces
AtY(c) == [p \in YFaces |->
             Avg(Sample(c, Res, Res, p[1] - 1, p[2]), Sample(c, Res, Res, p[1], p[2]))]

AtX(c) == [p \in XFaces |->
             Avg(Sample(c, Res, Res, p[1], p[2] - 1), Sample(c, Res, Res, p[1], p[2]))]

AtVelocity(c) == [y |-> AtY(c), x |-> AtX(c)]

\* velocity.at(centered points)
YAtCells(v) == [p \in Cells |-> Avg(v.y[p], v.y[<<p[1] + 1, p[2]>>])]

XAtCells(v) == [p \in Cells |-> Avg(v.x[p], v.x[<<p[1], p[2] + 1>>])]

VAdd(v, w) == [y |-> [p \in YFaces |-> Add(v.y[p], w.y[p])],
               x |-> [p \in XFaces |-> Add(v.x[p], w.x[p])]]

VSub(v, w) == [y |-> [p \in YFaces |-> Sub(v.y[p], w.y[p])],
               x |-> [p \in XFaces |-> Sub(v.x[p], w.x[p])]]

(***************************************************************************)
(* The operators of the field library that step calls.                     *)
(***************************************************************************)
\* whole cells travelled by a finite displacement a, at most Res
Disp(a) ==
    LET m == AbsInt(a[2])
        e == a[3]
        n == IF e >= 1 THEN Res
             ELSE IF e < -Digits THEN 0
             ELSE MinInt(Res, (m + (Pow10(-e) \div 2)) \div Pow10(-e))
    IN  IF a[2] < 0 THEN -n ELSE n

\* advect.semi_lagrangian on one R x C array: every point takes the value
\* found dt upstream of it; vy and vx are the velocity at the points
Advect(f, R, C, vy, vx, dt_) ==
    [p \in Shape(R, C) |->
        LET dy == Mul(vy[p], dt_)
            dx == Mul(vx[p], dt_)
        IN  IF ~IsFin(dy) \/ ~IsFin(dx) THEN NaN
            ELSE Sample(f, R, C, p[1] - Disp(dy), p[2] - Disp(dx))]

semi_lagrangian(field, velocity, dt_) ==
    Advect(field, Res, Res, YAtCells(velocity), XAtCells(velocity), dt_)

semi_lagrangian_velocity(velocity, dt_) ==
    LET yc == YAtCells(velocity)
        xc == XAtCells(velocity)
        xAtY == [p \in YFaces |-> Sample(xc, Res, Res, p[1], p[2])]
        yAtX == [p \in XFaces |-> Sample(yc, Res, Res, p[1], p[2])]
    IN  [y |-> Advect(velocity.y, Res + 1, Res, velocity.y, xAtY, dt_),
         x |-> Advect(velocity.x, Res, Res + 1, yAtX, velocity.x, dt_)]

\* one explicit diffusion sub-step on an R x C array
Diffuse(f, R, C, amount) ==
    [p \in Shape(R, C) |->
        LET i == p[1]
            j == p[2]
            nb == Add(Add(Sample(f, R, C, i - 1, j), Sample(f, R, C, i + 1, j)),
                      Add(Sample(f, R, C, i, j - 1), Sample(f, R, C, i, j + 1)))
            lap == Sub(nb, Mul(F(4, 0), f[p]))
        IN  Add(f[p], Mul(amount, lap))]

diffuse(field, amount) == Diffuse(field, Res, Res, amount)

diffuse_velocity(velocity, amount) ==
    [y |-> Diffuse(velocity.y, Res + 1, Res, amount),
     x |-> Diffuse(velocity.x, Res, Res + 1, amount)]

\* effect_applied: GROW adds effect.field * dt, ADD adds effect.field, FIX
\* replaces the field inside the effect's bounds (here the whole domain)
EffectValue(effect, v, dt_) ==
    IF effect.mode = "GROW" THEN Add(v, Mul(effect.value, dt_))
    ELSE IF effect.mode = "ADD" THEN Add(v, effect.value)
    ELSE effect.value

effect_applied(effect, field, dt_) ==
    [p \in DOMAIN field |-> EffectValue(effect, field[p], dt_)]

effect_applied_velocity(effect, velocity, dt_) ==
    [y |-> effect_applied(effect, velocity.y, dt_),
     x |-> effect_applied(effect, velocity.x, dt_)]

\* solve_pressure: one Jacobi sweep on  laplace p = divergence  from p = 0
solve_pressure(divergence_field) ==
    [pressure_c |-> [p \in Cells |-> Mul(F(-25, -2), divergence_field[p])],
     iterations |-> 1]

\* rho_u.divergence(physical_units=False)
Divergence(v) ==
    [p \in Cells |->
        Add(Sub(v.y[<<p[1] + 1, p[2]>>], v.y[p]), Sub(v.x[<<p[1], p[2] + 1>>], v.x[p]))]

\* StaggeredGrid.gradient of a centered field, replicate padding
Gradient(c) ==
    [y |-> [p \in YFaces |->
              Sub(Sample(c, Res, Res, p[1], p[2]), Sample(c, Res, Res, p[1] - 1, p[2]))],
     x |-> [p \in XFaces |->
              Sub(Sample(c, Res, Res, p[1], p[2]), Sample(c, Res, Res, p[1], p[2] - 1))]]

\* gravity_tensor(Gravity(), 2): -9.81 along y, 0 along x
gravity == [y |-> F(-981, -2), x |-> Zero]

(***************************************************************************)
(* The module-level constants and the pure functions of the source.        *)
(***************************************************************************)
Wf == F(16, -3)
Wo == F(32, -3)
Wp == F(62, -3)
cp == F(1450, 0)
R_gas == F(8314, -3)

get_min_max_zf_zo(eq) ==
    LET eq_min == F(8, -1)
        eq_max == F(1, 0)
        Zf_min == Div(One, Add(One, Div(Mul(F(4, 0), F(429, -2)), eq_min)))
        Zf_max == Div(One, Add(One, Div(Mul(F(4, 0), F(429, -2)), eq_max)))
    IN  [Zf_min |-> Zf_min, Zf_max |-> Zf_max,
         Zo_min |-> Sub(One, Zf_max), Zo_max |-> Sub(One, Zf_min)]

\* rd_array[20, :, :], then (rd_yk - min) / (max - min); NumPy divides 0 by 0
\* into NaN with a warning, it raises nothing
Layer20(rd) == [p \in Shape(rd.rows, Res) |-> rd.data[<<20, p[1], p[2]>>]]

\* np.min and np.max of an array of finite numbers
ArrayMin(f) == CHOOSE v \in {f[p] : p \in DOMAIN f} : \A q \in DOMAIN f : ~Less(f[q], v)

ArrayMax(f) == CHOOSE v \in {f[p] : p \in DOMAIN f} : \A q \in DOMAIN f : ~Less(v, f[q])

Normalized(rd) ==
    LET s  == Layer20(rd)
        lo == ArrayMin(s)
        hi == ArrayMax(s)
    IN  [p \in DOMAIN s |-> Div(Sub(s[p], lo), Sub(hi, lo))]

\* density = (1.0 / 8.314) * pressure * ((Yf/Wf + Yo/Wo + (1-Yf-Yo)/Wp) * temperature) ** (-1)
StateEquation(pressure, temperature, Yf, Yo) ==
    [p \in Cells |->
        LET mix == Add(Add(Mul(Yf[p], Div(One, Wf)), Mul(Yo[p], Div(One, Wo))),
                       Mul(Sub(Sub(One, Yf[p]), Yo[p]), Div(One, Wp)))
        IN  Mul(Mul(Div(One, R_gas), pressure[p]), PowNeg1(Mul(mix, temperature[p])))]

\* NumPy raises ValueError when rd_array[0:1, 0:res, 0], of shape
\* (1, min(rows, res)), cannot be broadcast into vn[0, 0:1, 0:res, 0]
VelocityBoundary_y_raises(field, rd_array, res) ==
    LET n == MinInt(rd_array.rows, res)
        t == Cardinality({j \in 0 .. res - 1 : <<0, j>> \in DOMAIN field.y})
    IN  n # t /\ n # 1

VelocityBoundary_y_mut(field, rd_array, res, rd_yk, equi_ratio) ==
    LET n  == MinInt(rd_array.rows, res)
        vn == [p \in DOMAIN field.y |->
                 IF p[1] = 0 /\ p[2] < res
                 THEN Add(Mul(Absolute(rd_array.data[<<0, IF n = 1 THEN 0 ELSE p[2], 0>>]),
                              F(4, 0)), F(6, 0))
                 ELSE Zero]
        vm == [p \in DOMAIN field.y |->
                 IF p[1] >= res \div 4 /\ (p[2] = 0 \/ p[2] >= res - 1) THEN Zero
                 ELSE One]
    IN  [velBCy |-> vn, velBCyMask |-> vm]

VelocityBoundary_y(field, rd_array, res, rd_yk, equi_ratio) ==
    LET n  == MinInt(rd_array.rows, res)
        \* vn[0, 0:1, 0:res, 0] = |rd_array[0:1, 0:res, 0]| * 4 + 6
        v1 == [p \in DOMAIN field.y |->
                 IF p[1] = 0 /\ p[2] < res
                 THEN Add(Mul(Absolute(rd_array.data[<<0, IF n = 1 THEN 0 ELSE p[2], 0>>]),
                              F(4, 0)), F(6, 0))
                 ELSE Zero]
        \* vn[0, 0:1, res:(res + 1), 0] = |rd_array[0:1, -1, 0]| * 4 + 6
        vn == [p \in DOMAIN field.y |->
                 IF p[1] = 0 /\ p[2] >= res /\ p[2] < res + 1
                 THEN Add(Mul(Absolute(rd_array.data[<<0, rd_array.rows - 1, 0>>]),
                              F(4, 0)), F(6, 0))
                 ELSE v1[p]]
        vm == [p \in DOMAIN field.y |->
                 IF p[1] = 0 THEN Zero
                 ELSE IF p[1] >= res \div 4 /\ (p[2] = 0 \/ p[2] >= res - 1) THEN Zero
                 ELSE One]
    IN  [velBCy |-> vn, velBCyMask |-> vm]

VelocityBoundary_x(field) ==
    LET vn == [p \in DOMAIN field.x |-> IF p[1] = 0 THEN Zero ELSE One]
    IN  [velBCx |-> vn, velBCxMask |-> vn]

\* divergence_free(velocity, density, domain, obstacles=(), return_info=True)
divergence_free(velocity, density) ==
    LET rho   == AtVelocity(density)
        rho_u == [y |-> [p \in YFaces |-> Mul(velocity.y[p], rho.y[p])],
                  x |-> [p \in XFaces |-> Mul(velocity.x[p], rho.x[p])]]
        divergence_field == Divergence(rho_u)
        solved == solve_pressure(divergence_field)
        \* pressure_c *= velocity.dx[0]; the cells of the domain have size 1
        pressure_c == [p \in Cells |-> Mul(solved.pressure_c[p], One)]
        gradp == Gradient(pressure_c)
        corr  == [y |-> [p \in YFaces |-> Div(gradp.y[p], rho.y[p])],
                  x |-> [p \in XFaces |-> Div(gradp.x[p], rho.x[p])]]
    IN  [velocity |-> VSub(velocity, corr),
         info |-> [pressure_c |-> pressure_c, iterations |-> solved.iterations,
                   divergence |-> divergence_field]]


\* data * mask + bc, cell by cell (lines 229, 256, 257 and 265)
ApplyBoundary(data, mask, bc) ==
    [p \in DOMAIN data |-> Add(Mul(data[p], mask[p]), bc[p])]

\* data * mask, cell by cell (line 230)
ApplyMask(data, mask) == [p \in DOMAIN data |-> Mul(data[p], mask[p])]

\* yf_mask, yf, yo_mask, yo of step
SpeciesBoundary(Z) ==
    LET mask == [p \in Cells |-> IF p[1] = 0 THEN Zero ELSE One]
    IN  [yf_mask |-> mask,
         yf |-> [p \in Cells |-> IF p[1] = 0 THEN Z.Zf_max ELSE Zero],
         yo_mask |-> mask,
         yo |-> [p \in Cells |-> IF p[1] = 0 THEN Z.Zo_min ELSE Zero]]

\* temp_mask and tempBC of step; the slice (res-1):res is written last
TemperatureBoundary(res) ==
    [temp_mask |-> [p \in Cells |->
                      IF p[1] = 0 \/ (p[1] >= res - 1 /\ p[1] < res) THEN Zero ELSE One],
     tempBC |-> [p \in Cells |->
                   IF p[1] >= res - 1 /\ p[1] < res THEN F(2000, 0)
                   ELSE IF p[1] = 0 THEN F(800, 0)
                   ELSE Zero]]

(***************************************************************************)
(* The inputs of a run.                                                    *)
(***************************************************************************)
\* the argument res of step
res == Res

DtSet == {F(-1, -1), Zero, F(1, -1)}

Unset == <<>>

\* SpFluid(domain, temperature=T, pressure=P, ...): every field is uniform
SpFluid(T, P, yf, yo, v, wt, wkf, wko, bf, eq) ==
    [velocity |-> [y |-> Const(YFaces, v), x |-> Const(XFaces, v)],
     temperature |-> Const(Cells, T),
     density |-> Const(Cells, Zero),
     pressure |-> Const(Cells, P),
     Yf |-> Const(Cells, yf), Yo |-> Const(Cells, yo),
     Wt |-> Const(Cells, wt), Wkf |-> Const(Cells, wkf), Wko |-> Const(Cells, wko),
     buoyancy_factor |-> bf, eq |-> eq, age |-> Zero,
     solve_info |-> Unset]

Fluids ==
    { \* the scenario of the specification: T = 800, Yf = 1, Yo = 0, at rest
      SpFluid(F(800, 0), F(101325, 0), One, Zero, Zero, Zero, Zero, Zero, Zero, One),
      \* the defaults of the constructor: temperature 0
      SpFluid(Zero, F(101325, 0), Zero, Zero, Zero, Zero, Zero, Zero, Zero, One),
      \* a reacting, moving, buoyant mixture
      SpFluid(F(1500, 0), F(101325, 0), F(5, -2), F(9, -1), One,
              F(-1, 5), F(-1, 0), F(-2, 0), F(1, -1), F(9, -1)),
      \* mass fraction above 1 and negative temperature
      SpFluid(F(-800, 0), F(101325, 0), F(2, 0), Zero, Zero, Zero, Zero, Zero, Zero, One) }

\* rd_array[layer, row, column] with `rows` rows; layers 0 and 20 are read
RdArray(rows, l0, l20) ==
    [rows |-> rows,
     data |-> [q \in {0, 20} \X (0 .. rows - 1) \X (0 .. Res - 1) |->
                 IF q[1] = 0 THEN l0[<<q[2], q[3]>>] ELSE l20[<<q[2], q[3]>>]]]

RdArrays ==
    { RdArray(rows,
              [p \in Shape(rows, Res) |-> F(-(2 * p[1] + p[2] + 1), 0)],
              [p \in Shape(rows, Res) |-> F(p[1] + 2 * p[2], 0)]) : rows \in {Res - 1, Res} }
    \cup
    { \* layer 20 constant across the grid
      RdArray(rows,
              [p \in Shape(rows, Res) |-> F(25 * (p[1] + 1), -2)],
              [p \in Shape(rows, Res) |-> F(5, -1)]) : rows \in {Res} }

Effect(mode, value) == [mode |-> mode, value |-> value]

\* <<density_effects, velocity_effects>>
EffectLists ==
    { << <<>>, <<>> >>,
      << <<Effect("FIX", F(5, -1)), Effect("ADD", One)>>,
         <<Effect("FIX", One), Effect("GROW", F(2, 0))>> >>,
      << <<Effect("GROW", One)>>, <<Effect("ADD", One)>> >> }

(***************************************************************************)
(* State.                                                                  *)
(***************************************************************************)
VARIABLES
    pc,                 \* the sub-step of step that runs next
    fluid,              \* the state object given to step
    prev,               \* the value of that object when step was called
    rd_array,           \* arguments of step
    dt,
    density_effects,
    velocity_effects,
    loc,                \* the local variables of step
    k,                  \* position of the running effect loop
    ret,                \* the state object step returned last
    steps,              \* calls of step made so far
    trace,              \* the sub-steps executed by the running call, in order
    hist                \* the values the sub-steps read and wrote

vars == <<pc, fluid, prev, rd_array, dt, density_effects, velocity_effects,
          loc, k, ret, steps, trace, hist>>

args == <<rd_array, density_effects, velocity_effects>>

NoLocals ==
    [velocity |-> Unset, temperature |-> Unset, pressure |-> Unset,
     Yf |-> Unset, Yo |-> Unset, wt |-> Unset, wkf |-> Unset, wko |-> Unset,
     Z |-> Unset, rd_yk |-> Unset, density |-> Unset,
     velBCy |-> Unset, velBCyMask |-> Unset, velBCx |-> Unset, velBCxMask |-> Unset,
     yf_mask |-> Unset, yf |-> Unset, yo_mask |-> Unset, yo |-> Unset,
     temp_mask |-> Unset, tempBC |-> Unset]

NoHist ==
    [eosDensity |-> Unset, buoyancyDensity |-> Unset,
     dlog |-> <<>>, vlog |-> <<>>,
     projVelocity |-> Unset, projDensity |-> Unset,
     preVelocity |-> Unset, bcVelocity |-> Unset,
     advT |-> Unset, advYf |-> Unset, advYo |-> Unset,
     preYf |-> Unset, preYo |-> Unset, preT |-> Unset,
     postYf |-> Unset, postYo |-> Unset, postT |-> Unset]

Init ==
    /\ pc = "idle"
    /\ fluid \in Fluids
    /\ prev = fluid
    /\ rd_array \in RdArrays
    /\ dt = Zero
    /\ \E e \in EffectLists : density_effects = e[1] /\ velocity_effects = e[2]
    /\ loc = NoLocals
    /\ k = 1
    /\ ret = Unset
    /\ steps = 0
    /\ trace = <<>>
    /\ hist = NoHist

Go(next, label) == pc' = next /\ trace' = Append(trace, label)

(***************************************************************************)
(* step, lines 195-204: the caller passes a fresh state, or the state the  *)
(* previous call returned; the locals are bound to its fields.             *)
(***************************************************************************)
Call ==
    /\ pc \in {"idle", "done"}
    /\ steps < MaxSteps
    /\ \E d \in DtSet :
         LET f == IF pc = "done" THEN ret ELSE fluid
         IN  /\ fluid' = f
             /\ prev' = f
             /\ dt' = d
             /\ loc' = [NoLocals EXCEPT
                          !.velocity = f.velocity, !.temperature = f.temperature,
                          !.pressure = f.pressure, !.Yf = f.Yf, !.Yo = f.Yo,
                          !.wt = f.Wt, !.wkf = f.Wkf, !.wko = f.Wko,
                          !.Z = get_min_max_zf_zo(f.eq)]
    /\ pc' = "normalize"
    /\ trace' = <<>>
    /\ hist' = NoHist
    /\ steps' = steps + 1
    /\ k' = 1
    /\ UNCHANGED <<args, ret>>

\* lines 206-207
Normalize ==
    /\ pc = "normalize"
    /\ loc' = [loc EXCEPT !.rd_yk = Normalized(rd_array)]
    /\ Go("density", "normalize")
    /\ UNCHANGED <<fluid, prev, args, dt, k, ret, steps, hist>>

\* line 209
Density ==
    /\ pc = "density"
    /\ LET d == StateEquation(loc.pressure, loc.temperature, loc.Yf, loc.Yo)
       IN  /\ loc' = [loc EXCEPT !.density = d]
           /\ hist' = [hist EXCEPT !.eosDensity = d]
    /\ Go("momentum", "density")
    /\ UNCHANGED <<fluid, prev, args, dt, k, ret, steps>>

\* lines 212-213
Momentum ==
    /\ pc = "momentum"
    /\ loc' = [loc EXCEPT !.velocity =
                 diffuse_velocity(semi_lagrangian_velocity(loc.velocity, dt),
                                  Mul(F(1, -1), dt))]
    /\ Go("buoyancy", "momentum")
    /\ UNCHANGED <<fluid, prev, args, dt, k, ret, steps, hist>>

\* line 215: velocity += (density * gravity * fluid.buoyancy_factor * dt).at(velocity)
BuoyancyForce(density, buoyancy_factor, dt_) ==
    LET fy == [p \in Cells |-> Mul(Mul(Mul(density[p], gravity.y), buoyancy_factor), dt_)]
        fx == [p \in Cells |-> Mul(Mul(Mul(density[p], gravity.x), buoyancy_factor), dt_)]
    IN  [y |-> AtY(fy), x |-> AtX(fx)]

Buoyancy ==
    /\ pc = "buoyancy"
    /\ loc' = [loc EXCEPT !.velocity =
                 VAdd(loc.velocity, BuoyancyForce(loc.density, fluid.buoyancy_factor, dt))]
    /\ hist' = [hist EXCEPT !.buoyancyDensity = loc.density]
    /\ Go("density_effects", "buoyancy")
    /\ k' = 1
    /\ UNCHANGED <<fluid, prev, args, dt, ret, steps>>

\* the effect the k-th turn of the density loop applies
DensityEffectAt_rev(i) == density_effects[Len(density_effects) + 1 - i]

DensityEffectAt(i) == density_effects[i]

\* lines 217-218, one turn of the loop
DensityEffect ==
    /\ pc = "density_effects"
    /\ k <= Len(density_effects)
    /\ LET d == effect_applied(DensityEffectAt(k), loc.density, dt)
       IN  /\ loc' = [loc EXCEPT !.density = d]
           /\ hist' = [hist EXCEPT !.dlog =
                         Append(@, [effect |-> DensityEffectAt(k),
                                    input |-> loc.density, output |-> d])]
    /\ k' = k + 1
    /\ Go("density_effects", "density_effect")
    /\ UNCHANGED <<fluid, prev, args, dt, ret, steps>>

\* the density loop ends
DensityEffectsEnd ==
    /\ pc = "density_effects"
    /\ k > Len(density_effects)
    /\ pc' = "velocity_effects"
    /\ k' = 1
    /\ UNCHANGED <<fluid, prev, args, dt, loc, ret, steps, trace, hist>>

\* lines 219-220, one turn of the loop
VelocityEffect ==
    /\ pc = "velocity_effects"
    /\ k <= Len(velocity_effects)
    /\ LET v == effect_applied_velocity(velocity_effects[k], loc.velocity, dt)
       IN  /\ loc' = [loc EXCEPT !.velocity = v]
           /\ hist' = [hist EXCEPT !.vlog =
                         Append(@, [effect |-> velocity_effects[k],
                                    input |-> loc.velocity, output |-> v])]
    /\ k' = k + 1
    /\ Go("velocity_effects", "velocity_effect")
    /\ UNCHANGED <<fluid, prev, args, dt, ret, steps>>

\* the velocity loop ends
VelocityEffectsEnd ==
    /\ pc = "velocity_effects"
    /\ k > Len(velocity_effects)
    /\ pc' = "projection"
    /\ k' = 1
    /\ UNCHANGED <<fluid, prev, args, dt, loc, ret, steps, trace, hist>>

\* line 223: velocity, fluid.solve_info = divergence_free(velocity, density, ...)
Projection ==
    /\ pc = "projection"
    /\ LET r == divergence_free(loc.velocity, loc.density)
       IN  /\ loc' = [loc EXCEPT !.velocity = r.velocity]
           /\ fluid' = [fluid EXCEPT !.solve_info = r.info]
           /\ hist' = [hist EXCEPT !.projVelocity = loc.velocity,
                                   !.projDensity = loc.density,
                                   !.preVelocity = r.velocity]
    /\ Go("velocity_bc", "projection")
    /\ UNCHANGED <<prev, args, dt, k, ret, steps>>

\* lines 225-231; line 227 raises when rd_array has too few rows
VelocityBoundary ==
    /\ pc = "velocity_bc"
    /\ IF VelocityBoundary_y_raises(loc.velocity, rd_array, res)
       THEN /\ pc' = "failed"
            /\ UNCHANGED <<loc, trace, hist>>
       ELSE LET by == VelocityBoundary_y(loc.velocity, rd_array, res, loc.rd_yk, fluid.eq)
                bx == VelocityBoundary_x(loc.velocity)
                cy == ApplyBoundary(loc.velocity.y, by.velBCyMask, by.velBCy)
                cx == ApplyMask(loc.velocity.x, bx.velBCxMask)
            IN  /\ loc' = [loc EXCEPT !.velocity = [y |-> cy, x |-> cx],
                                      !.velBCy = by.velBCy, !.velBCyMask = by.velBCyMask,
                                      !.velBCx = bx.velBCx, !.velBCxMask = bx.velBCxMask]
                /\ hist' = [hist EXCEPT !.bcVelocity = [y |-> cy, x |-> cx]]
                /\ Go("pressure", "velocity_bc")
    /\ UNCHANGED <<fluid, prev, args, dt, k, ret, steps>>

\* lines 233-234
PressureUpdate ==
    /\ pc = "pressure"
    /\ LET pressure_c == fluid.solve_info.pressure_c
       IN  loc' = [loc EXCEPT !.pressure = [p \in Cells |-> Add(@[p], pressure_c[p])]]
    /\ Go("energy", "pressure")
    /\ UNCHANGED <<fluid, prev, args, dt, k, ret, steps, hist>>

\* field += sign * (w * dt * (density * c) ** (-1)), lines 239, 244 and 248
Source(field, sign, w, dt_, density, c) ==
    [p \in Cells |->
        Add(field[p], Mul(sign, Mul(Mul(w[p], dt_), PowNeg1(Mul(density[p], c)))))]

\* the energy equation run on the projected velocity, before the velocity
\* boundary update
Energy_early ==
    /\ pc = "velocity_bc"
    /\ \A i \in 1 .. Len(trace) : trace[i] # "energy"
    /\ LET t1 == diffuse(semi_lagrangian(loc.temperature, loc.velocity, dt),
                         Mul(dt, F(1, -1)))
       IN  loc' = [loc EXCEPT !.temperature =
                     Source(t1, F(-1, 0), loc.wt, dt, loc.density, cp)]
    /\ hist' = [hist EXCEPT !.advT = loc.velocity]
    /\ trace' = Append(trace, "energy")
    /\ UNCHANGED <<pc, fluid, prev, args, dt, k, ret, steps>>

\* lines 237-239
Energy ==
    /\ pc = "energy"
    /\ LET t1 == diffuse(semi_lagrangian(loc.temperature, loc.velocity, dt),
                         Mul(dt, F(1, -1)))
       IN  loc' = [loc EXCEPT !.temperature =
                     Source(t1, F(-1, 0), loc.wt, dt, loc.density, cp)]
    /\ hist' = [hist EXCEPT !.advT = loc.velocity]
    /\ Go("species_f", "energy")
    /\ UNCHANGED <<fluid, prev, args, dt, k, ret, steps>>

\* lines 242-244
SpeciesYf ==
    /\ pc = "species_f"
    /\ LET y1 == diffuse(semi_lagrangian(loc.Yf, loc.velocity, dt), Mul(F(1, -1), dt))
       IN  loc' = [loc EXCEPT !.Yf = Source(y1, One, loc.wkf, dt, loc.density, One)]
    /\ hist' = [hist EXCEPT !.advYf = loc.velocity]
    /\ Go("species_o", "species_f")
    /\ UNCHANGED <<fluid, prev, args, dt, k, ret, steps>>

\* lines 246-248
SpeciesYo ==
    /\ pc = "species_o"
    /\ LET y1 == diffuse(semi_lagrangian(loc.Yo, loc.velocity, dt), Mul(F(1, -1), dt))
       IN  loc' = [loc EXCEPT !.Yo = Source(y1, One, loc.wko, dt, loc.density, One)]
    /\ hist' = [hist EXCEPT !.advYo = loc.velocity]
    /\ Go("species_bc", "species_o")
    /\ UNCHANGED <<fluid, prev, args, dt, k, ret, steps>>

\* lines 250-257
SpeciesBoundaryStep ==
    /\ pc = "species_bc"
    /\ LET b  == SpeciesBoundary(loc.Z)
           Yf == ApplyBoundary(loc.Yf, b.yf_mask, b.yf)
           Yo == ApplyBoundary(loc.Yo, b.yo_mask, b.yo)
       IN  /\ loc' = [loc EXCEPT !.Yf = Yf, !.Yo = Yo,
                                 !.yf_mask = b.yf_mask, !.yf = b.yf,
                                 !.yo_mask = b.yo_mask, !.yo = b.yo]
           /\ hist' = [hist EXCEPT !.preYf = loc.Yf, !.preYo = loc.Yo,
                                   !.postYf = Yf, !.postYo = Yo]
    /\ Go("temperature_bc", "species_bc")
    /\ UNCHANGED <<fluid, prev, args, dt, k, ret, steps>>

\* lines 259-265
TemperatureBoundaryStep ==
    /\ pc = "temperature_bc"
    /\ LET b == TemperatureBoundary(res)
           T == ApplyBoundary(loc.temperature, b.temp_mask, b.tempBC)
       IN  /\ loc' = [loc EXCEPT !.temperature = T,
                                 !.temp_mask = b.temp_mask, !.tempBC = b.tempBC]
           /\ hist' = [hist EXCEPT !.preT = loc.temperature, !.postT = T]
    /\ Go("return", "temperature_bc")
    /\ UNCHANGED <<fluid, prev, args, dt, k, ret, steps>>

\* line 269: fluid.copied_with(velocity=velocity, ..., age=fluid.age + dt)
Return ==
    /\ pc = "return"
    /\ ret' = [fluid EXCEPT !.velocity = loc.velocity, !.temperature = loc.temperature,
                            !.density = loc.density, !.pressure = loc.pressure,
                            !.Yf = loc.Yf, !.Yo = loc.Yo,
                            !.Wt = loc.wt, !.Wkf = loc.wkf, !.Wko = loc.wko,
                            !.age = Add(fluid.age, dt)]
    /\ Go("done", "return")
    /\ UNCHANGED <<fluid, prev, args, dt, loc, k, steps, hist>>

Next ==
    \/ Call
    \/ Normalize
    \/ Density
    \/ Momentum
    \/ Buoyancy
    \/ DensityEffect
    \/ DensityEffectsEnd
    \/ VelocityEffect
    \/ VelocityEffectsEnd
    \/ Projection
    \/ VelocityBoundary
    \/ PressureUpdate
    \/ Energy
    \/ SpeciesYf
    \/ SpeciesYo
    \/ SpeciesBoundaryStep
    \/ TemperatureBoundaryStep
    \/ Return

Spec == Init /\ [][Next]_vars


(***************************************************************************)
(* Properties.                                                             *)
(***************************************************************************)
Executed(label) == \E i \in 1 .. Len(trace) : trace[i] = label

BottomCols == 0 .. Res - 1

SliceUniform ==
    \A p, q \in Shape(rd_array.rows, Res) :
        rd_array.data[<<20, p[1], p[2]>>] = rd_array.data[<<20, q[1], q[2]>>]

\* the conditions section 7 of the specification calls invalid physical parameters,
\* for the running (or last) call
InvalidParameters ==
    \/ ~Less(Zero, dt)
    \/ \E p \in Cells :
          \/ Less(prev.Yf[p], Zero) \/ Less(One, prev.Yf[p])
          \/ Less(prev.Yo[p], Zero) \/ Less(One, prev.Yo[p])
          \/ Less(prev.temperature[p], Zero)

\* a call is running or has returned, and its parameters are valid
ValidCall == pc # "idle" /\ ~InvalidParameters

\* C1: in every state step returns, every cell of row 0 of Yf equals Zf_max and
\* every cell of row 0 of Yo equals Zo_min, whatever the fields were before the
\* boundary update, and every other row keeps its post-transport, post-source value.
\* Stated for the calls with dt > 0, mass fractions in [0, 1] and temperature >= 0.
C1_BottomRowSpecies ==
    (pc = "done" /\ ValidCall) =>
        /\ \A j \in BottomCols :
              /\ ret.Yf[<<0, j>>] = get_min_max_zf_zo(prev.eq).Zf_max
              /\ ret.Yo[<<0, j>>] = get_min_max_zf_zo(prev.eq).Zo_min
        /\ \A p \in Cells :
              p[1] # 0 => ret.Yf[p] = hist.preYf[p] /\ ret.Yo[p] = hist.preYo[p]

\* C2: in every state step returns (res >= 2), the temperature is 800 in every cell
\* of row 0 and 2000 in every cell of row res-1, and the x-velocity is 0 in every
\* cell of row 0, whatever the inputs were.  Stated for the calls with dt > 0, mass
\* fractions in [0, 1] and temperature >= 0.
C2_DirichletRows ==
    (pc = "done" /\ ValidCall) =>
        /\ \A j \in BottomCols :
              /\ ret.temperature[<<0, j>>] = F(800, 0)
              /\ ret.temperature[<<res - 1, j>>] = F(2000, 0)
        /\ \A j \in 0 .. Res : ret.velocity.x[<<0, j>>] = Zero

\* C3: at every point during and after a call of step, every attribute of the state
\* object given to step (solve_info included) has the value it had before the call.
\* Stated for the calls with valid parameters.
C3_InputUntouched == ValidCall => fluid = prev

\* C4: when rd_array[20, :, :] is constant across the grid, step ends in an error
\* raised by the normalization; it never completes and returns a state.  Stated for
\* the calls with valid parameters.
C4_UniformSliceRaises == (ValidCall /\ SliceUniform) => pc # "done"

\* C5: a call of step with dt <= 0, a mass fraction outside [0, 1] or a negative
\* temperature is rejected at entry: no sub-step (density, advection, diffusion,
\* effects, projection) is executed and no state is returned.
C5_ValidatedAtEntry ==
    (pc # "idle" /\ InvalidParameters) =>
        /\ pc # "done"
        /\ \A i \in 1 .. Len(trace) : trace[i] = "normalize"

Probes == {Zero, One, F(-25, -1), F(2000, 0), NaN, PInf, NInf}

IsMask(m) == m \in {Zero, One}

\* applying  c * m + b  twice gives what applying it once gives
Idempotent(c, m, b) == Add(Mul(Add(Mul(c, m), b), m), b) = Add(Mul(c, m), b)

IdempotentOn(data, mask, bc) ==
    \A p \in DOMAIN mask :
        /\ IsMask(mask[p])
        /\ mask[p] = One => bc[p] = Zero
        /\ \A c \in Probes \cup {data[p]} : Idempotent(c, mask[p], bc[p])

\* C6: each of the five boundary updates of step is idempotent: for every field
\* value, applying the update twice with the same mask and boundary array gives the
\* same field as applying it once; every mask entry is 0 or 1 and every boundary
\* array is zero wherever its mask is 1.
C6_BoundaryIdempotent ==
    /\ Executed("velocity_bc") =>
          /\ IdempotentOn(hist.preVelocity.y, loc.velBCyMask, loc.velBCy)
          /\ IdempotentOn(hist.preVelocity.x, loc.velBCxMask, Const(XFaces, Zero))
    /\ Executed("species_bc") =>
          /\ IdempotentOn(hist.preYf, loc.yf_mask, loc.yf)
          /\ IdempotentOn(hist.preYo, loc.yo_mask, loc.yo)
    /\ Executed("temperature_bc") =>
          IdempotentOn(hist.preT, loc.temp_mask, loc.tempBC)

\* a call in which all five updates ran and each changed its field
C6_Witness ==
    /\ pc = "done"
    /\ hist.preVelocity.y # hist.bcVelocity.y
    /\ hist.preVelocity.x # hist.bcVelocity.x
    /\ hist.preYf # hist.postYf
    /\ hist.preYo # hist.postYo
    /\ hist.preT # hist.postT
    /\ \E p \in YFaces : loc.velBCyMask[p] = One

\* C7: the age of the state step returns is the age of the state it was given plus
\* dt, and along a chain of calls the age never decreases from one state to the next.
C7_AgeMonotone ==
    pc = "done" =>
        /\ ret.age = Add(prev.age, dt)
        /\ ~Less(ret.age, prev.age)

\* C8: the y-velocity imposed on the bottom row is |rd_yk| * 4 + 6 at each column,
\* rd_yk being the min-max normalized slice rd_array[20, :, :]; it therefore lies
\* in [6, 10].  Stated for the calls with valid parameters.
C8_InflowFromNormalizedSlice ==
    (ValidCall /\ Executed("velocity_bc")) =>
        \A j \in BottomCols :
            /\ loc.velBCy[<<0, j>>] =
                  Add(Mul(Absolute(loc.rd_yk[<<0, j>>]), F(4, 0)), F(6, 0))
            /\ ~Less(loc.velBCy[<<0, j>>], F(6, 0))
            /\ ~Less(F(10, 0), loc.velBCy[<<0, j>>])

Repeat(label, n) == [i \in 1 .. n |-> label]

\* the sub-steps of one call in the order of the source
ProgramOrder ==
    <<"normalize", "density", "momentum", "buoyancy">>
    \o Repeat("density_effect", Len(density_effects))
    \o Repeat("velocity_effect", Len(velocity_effects))
    \o <<"projection", "velocity_bc", "pressure", "energy", "species_f", "species_o",
         "species_bc", "temperature_bc", "return">>

\* C9: the sub-steps of one call occur in this order and no other: velocity
\* advection and diffusion, buoyancy, effects, projection, velocity boundary update,
\* transport and sources of temperature, Yf and Yo, scalar boundary updates.  The
\* velocity that advects temperature, Yf and Yo is the boundary-corrected velocity,
\* which is the velocity of the returned state, and the returned temperature, Yf
\* and Yo are the values their boundary updates produced.
C9_SubStepOrder ==
    /\ Len(trace) <= Len(ProgramOrder)
    /\ \A i \in 1 .. Len(trace) : trace[i] = ProgramOrder[i]
    /\ Executed("energy") => hist.advT = hist.bcVelocity
    /\ Executed("species_f") => hist.advYf = hist.bcVelocity
    /\ Executed("species_o") => hist.advYo = hist.bcVelocity
    /\ pc = "done" =>
          /\ trace = ProgramOrder
          /\ ret.velocity = hist.bcVelocity
          /\ ret.temperature = hist.postT
          /\ ret.Yf = hist.postYf
          /\ ret.Yo = hist.postYo

\* a returned call whose velocity boundary update changed the projected velocity
\* and whose transport and sources changed temperature, Yf and Yo
C9_Witness ==
    /\ pc = "done"
    /\ hist.preVelocity # hist.bcVelocity
    /\ hist.preT # prev.temperature
    /\ hist.preYf # prev.Yf
    /\ hist.preYo # prev.Yo
    /\ Len(velocity_effects) > 0

\* the field an effect loop hands to its n-th effect
ChainInput(log, first, n) == IF n = 1 THEN first ELSE log[n - 1].output

ChainOutput(log, first) == IF Len(log) = 0 THEN first ELSE log[Len(log)].output

\* C10: every density effect is applied, in list order and each to the output of
\* the previous one, before any velocity effect; then every velocity effect, in
\* list order, each to the output of the previous one; the effects run after the
\* buoyancy force, which reads the density of the state equation, and before the
\* projection, which receives the velocity and the density the last effects
\* produced; the returned state stores that density.
C10_EffectOrder ==
    /\ Executed("buoyancy") => hist.buoyancyDensity = hist.eosDensity
    /\ Len(hist.dlog) <= Len(density_effects)
    /\ Len(hist.vlog) <= Len(velocity_effects)
    /\ \A n \in 1 .. Len(hist.dlog) :
          /\ Executed("buoyancy")
          /\ hist.dlog[n].effect = density_effects[n]
          /\ hist.dlog[n].input = ChainInput(hist.dlog, hist.eosDensity, n)
          /\ hist.dlog[n].output =
                effect_applied(density_effects[n], hist.dlog[n].input, dt)
    /\ \A n \in 1 .. Len(hist.vlog) :
          /\ Len(hist.dlog) = Len(density_effects)
          /\ hist.vlog[n].effect = velocity_effects[n]
          /\ n > 1 => hist.vlog[n].input = hist.vlog[n - 1].output
          /\ hist.vlog[n].output =
                effect_applied_velocity(velocity_effects[n], hist.vlog[n].input, dt)
    /\ \A i, j \in 1 .. Len(trace) :
          (i < j /\ trace[i] = "velocity_effect") => trace[j] # "density_effect"
    /\ Executed("projection") =>
          /\ Len(hist.dlog) = Len(density_effects)
          /\ Len(hist.vlog) = Len(velocity_effects)
          /\ hist.projDensity = ChainOutput(hist.dlog, hist.eosDensity)
          /\ Len(hist.vlog) > 0 => hist.projVelocity = ChainOutput(hist.vlog, Unset)
    /\ pc = "done" => ret.density = hist.projDensity

\* a returned call with two density effects and two velocity effects whose order
\* matters, and a returned density the effects changed
C10_Witness ==
    /\ pc = "done"
    /\ Len(density_effects) = 2
    /\ Len(velocity_effects) = 2
    /\ density_effects[1] # density_effects[2]
    /\ ret.density # hist.eosDensity
    /\ hist.dlog[1].output # hist.dlog[2].output

====
